---- MODULE Spec2Model ----
(***************************************************************************)
(* Model of the RFM segmentation of dashboard/Dashboard.py:                *)
(* create_rfm_df(df) groups the order rows per customer, cuts recency and  *)
(* the rank of frequency into five quantile buckets (pandas.qcut), joins   *)
(* the two scores into a two character code, maps the code to a segment    *)
(* with the regular expressions of seg_map and sums monetary per segment.  *)
(*                                                                         *)
(* Timestamps are integers counted in ticks, TicksPerDay ticks a day, so   *)
(* that Timedelta.days is a floor division.  Quantile edges are rationals  *)
(* with denominator 5 (linear interpolation at k/5); the model carries     *)
(* them multiplied by 5 and exact, where numpy rounds them to binary       *)
(* floating point.  Prices are integers.  Strings are sequences of tokens: *)
(* a digit character, or a whole segment label put in by a replacement.    *)
(***************************************************************************)
EXTENDS Integers, Sequences, FiniteSets

VARIABLES df, pc, rfm_df, revenue_per_type

vars == <<df, pc, rfm_df, revenue_per_type>>

(* ---------------------------- bounds ---------------------------------- *)

MaxCust == 5
MaxDay == 3
MaxOrders == 2
MaxPrice == 2
TicksPerDay == 2

(* ---------------------------- helpers --------------------------------- *)

(* the sequence s with every element computed once, as a column held in  *)
(* memory is                                                              *)
List(s) == SubSeq(s, 1, Len(s))

(* one column of a table *)
Column(t, name) == List([i \in 1..Len(t) |-> t[i][name]])

Range(s) == {s[i] : i \in 1..Len(s)}

Max(S) == CHOOSE x \in S : \A y \in S : y <= x

Min(S) == CHOOSE x \in S : \A y \in S : x <= y

RECURSIVE SumSet(_, _)
SumSet(S, f) ==
    IF S = {} THEN 0
    ELSE LET x == CHOOSE y \in S : TRUE IN f[x] + SumSet(S \ {x}, f)

(* the values of the sequence x in ascending order, as numpy sorts them *)
Sorted(x) ==
    List([j \in 1..Len(x) |->
        Min({v \in Range(x) : Cardinality({i \in 1..Len(x) : x[i] <= v}) >= j})])

(* ----------------------- create_rfm_df: metrics ----------------------- *)

RowsOf(d, c) == {i \in 1..Len(d) : d[i].customer_unique_id = c}

(* the reference date taken as the latest purchase itself *)
max_date_m(d) ==
    Max({d[i].order_purchase_timestamp : i \in 1..Len(d)})

max_date(d) ==
    Max({d[i].order_purchase_timestamp : i \in 1..Len(d)}) + TicksPerDay

(* groupby(..., sort=False): the groups in order of first appearance *)
GroupKeys_m(d) ==
    LET K == {d[i].customer_unique_id : i \in 1..Len(d)}
        First(k) == Min({i \in 1..Len(d) : d[i].customer_unique_id = k})
    IN List([j \in 1..Cardinality(K) |->
            CHOOSE k \in K : Cardinality({m \in K : First(m) < First(k)}) = j - 1])

(* groupby("customer_unique_id") with the default sort=True: one group per *)
(* distinct key, the groups in ascending order of the key                 *)
GroupKeys(d) ==
    LET K == {d[i].customer_unique_id : i \in 1..Len(d)}
    IN List([j \in 1..Cardinality(K) |->
            CHOOSE k \in K : Cardinality({m \in K : m < k}) = j - 1])

recency(d, c) ==
    (max_date(d) - Max({d[i].order_purchase_timestamp : i \in RowsOf(d, c)}))
        \div TicksPerDay

frequency(d, c) == Cardinality({d[i].order_id : i \in RowsOf(d, c)})

(* the price of one line item per order only *)
monetary_m(d, c) ==
    SumSet({i \in RowsOf(d, c) : d[i].order_item_id = 1}, Column(d, "price"))

monetary(d, c) == SumSet(RowsOf(d, c), Column(d, "price"))

Aggregate(d) ==
    LET keys == GroupKeys(d)
    IN List([i \in 1..Len(keys) |->
            [customer_unique_id |-> keys[i],
             recency |-> recency(d, keys[i]),
             frequency |-> frequency(d, keys[i]),
             monetary |-> monetary(d, keys[i])]])

(* --------------------------- pandas.qcut ------------------------------ *)

NBins == 5

(* 5 * (the k/5 quantile of the sorted values v, linear interpolation    *)
(* between the two order statistics around position (n-1)*k/5)            *)
Quantile5(v, k) ==
    LET n == Len(v)
        pos == (n - 1) * k
        lo == pos \div NBins
        rem == pos % NBins
        hi == IF lo + 1 <= n - 1 THEN lo + 1 ELSE n - 1
    IN NBins * v[lo + 1] + rem * (v[hi + 1] - v[lo + 1])

(* the NBins + 1 bin edges, times 5: edge k/5 is Bins(x)[k + 1] *)
Bins(x) ==
    LET v == Sorted(x)
    IN List([e \in 1..(NBins + 1) |-> Quantile5(v, e - 1)])

BinsUnique(b) ==
    \A j, k \in 1..Len(b) : j # k => b[j] # b[k]

(* bins.searchsorted(v, side="left"), and include_lowest: a value equal   *)
(* to the lowest edge goes to the first bin                               *)
BinId(b, v) ==
    IF NBins * v = b[1] THEN 1
    ELSE Cardinality({e \in 1..Len(b) : b[e] < NBins * v})

(* raises ValueError("Bin edges must be unique") on duplicate edges *)
qcut(x, labels) ==
    LET b == Bins(x)
    IN IF BinsUnique(b)
       THEN [ok |-> TRUE,
             val |-> List([i \in 1..Len(x) |-> labels[BinId(b, x[i])]])]
       ELSE [ok |-> FALSE, val |-> <<>>]

(* rank(method="min"): tied values share the lowest rank *)
RankFirst_m(x) ==
    List([i \in 1..Len(x) |->
        1 + Cardinality({j \in 1..Len(x) : x[j] < x[i]})])

(* Series.rank(method="first"): ties ranked in order of appearance *)
RankFirst(x) ==
    List([i \in 1..Len(x) |->
        1 + Cardinality({j \in 1..Len(x) : x[j] < x[i]})
          + Cardinality({j \in 1..(i - 1) : x[j] = x[i]})])

(* the recency labels in ascending order *)
r_labels_m == <<1, 2, 3, 4, 5>>

r_labels == <<5, 4, 3, 2, 1>>

f_labels == <<1, 2, 3, 4, 5>>

r_score(t) == qcut(Column(t, "recency"), r_labels)

f_score(t) == qcut(RankFirst(Column(t, "frequency")), f_labels)

(* ------------------- rf_score and the segment map --------------------- *)

Digit == <<"1", "2", "3", "4", "5">>

(* astype(str) of a score *)
Str(n) == <<Digit[n]>>

(* the map without the "|21" alternative of the last pattern *)
seg_map_m == <<
    [pat |-> << <<{"4", "5"}, {"4", "5"}>> >>, label |-> "Champions"],
    [pat |-> << <<{"3"}, {"4", "5"}>> >>, label |-> "Loyal customers"],
    [pat |-> << <<{"3", "4", "5"}, {"1", "2", "3"}>> >>, label |-> "Potential loyalist"],
    [pat |-> << <<{"1", "2"}, {"4", "5"}>> >>, label |-> "At risk"],
    [pat |-> << <<{"2"}, {"2", "3"}>> >>, label |-> "Hibernating"],
    [pat |-> << <<{"1"}, {"1", "2", "3"}>> >>, label |-> "Lost"] >>

(* seg_map: each pattern is a sequence of alternatives ("|"), each        *)
(* alternative a sequence of character classes                            *)
seg_map == <<
    [pat |-> << <<{"4", "5"}, {"4", "5"}>> >>, label |-> "Champions"],
    [pat |-> << <<{"3"}, {"4", "5"}>> >>, label |-> "Loyal customers"],
    [pat |-> << <<{"3", "4", "5"}, {"1", "2", "3"}>> >>, label |-> "Potential loyalist"],
    [pat |-> << <<{"1", "2"}, {"4", "5"}>> >>, label |-> "At risk"],
    [pat |-> << <<{"2"}, {"2", "3"}>> >>, label |-> "Hibernating"],
    [pat |-> << <<{"1"}, {"1", "2", "3"}>>, <<{"2"}, {"1"}>> >>, label |-> "Lost"] >>

AltMatchesAt(alt, s, i) ==
    /\ i + Len(alt) - 1 <= Len(s)
    /\ \A j \in 1..Len(alt) : s[i + j - 1] \in alt[j]

(* length of the match of pat at position i of s, 0 when there is none:   *)
(* the first alternative that matches wins                                *)
MatchLen(pat, s, i) ==
    LET hits == {a \in 1..Len(pat) : AltMatchesAt(pat[a], s, i)}
    IN IF hits = {} THEN 0 ELSE Len(pat[Min(hits)])

(* re.search *)
Search(pat, s) == \E i \in 1..Len(s) : MatchLen(pat, s, i) > 0

(* re.sub from position i on: leftmost non-overlapping matches replaced *)
RECURSIVE SubFrom(_, _, _, _)
SubFrom(pat, repl, s, i) ==
    IF i > Len(s) THEN <<>>
    ELSE LET m == MatchLen(pat, s, i)
         IN IF m > 0 THEN <<repl>> \o SubFrom(pat, repl, s, i + m)
            ELSE <<s[i]>> \o SubFrom(pat, repl, s, i + 1)

(* Series.replace(seg_map, regex=True): the patterns are applied in the   *)
(* order of the dict; which cells a pattern rewrites is decided on the    *)
(* original value, the rewrite acts on the current one                    *)
RECURSIVE ReplaceFrom(_, _, _)
ReplaceFrom(orig, cur, k) ==
    IF k > Len(seg_map) THEN cur
    ELSE ReplaceFrom(orig,
                     IF Search(seg_map[k].pat, orig)
                     THEN SubFrom(seg_map[k].pat, seg_map[k].label, cur, 1)
                     ELSE cur,
                     k + 1)

Replace(s) == ReplaceFrom(s, s, 1)

(* the scored per-customer table, rows in group order *)
Scored(t, r, f) ==
    List([i \in 1..Len(t) |->
        [customer_unique_id |-> t[i].customer_unique_id,
         recency |-> t[i].recency,
         frequency |-> t[i].frequency,
         monetary |-> t[i].monetary,
         r_score |-> r[i],
         f_score |-> f[i],
         rf_score |-> Str(r[i]) \o Str(f[i]),
         customers_type |-> Replace(Str(r[i]) \o Str(f[i]))]])

(* groupby("customers_type")["monetary"].sum(): one row per segment       *)
(* present in the table                                                   *)
RevenuePerType(t) ==
    LET types == {t[i].customers_type : i \in 1..Len(t)}
    IN [ty \in types |->
            SumSet({i \in 1..Len(t) : t[i].customers_type = ty},
                   Column(t, "monetary"))]

(* ----------------------------- inputs --------------------------------- *)

(* The order rows of a purchase history: customer c bought last on day    *)
(* last[c]; customer rb (0: nobody) placed k orders, on consecutive days  *)
(* back from the last one, everybody else one order.  An order has one or *)
(* two line items, all carrying the order's id and timestamp.             *)
NumOrders(c, rb, k) == IF c = rb THEN k ELSE 1

OrderDay(last, c, j) == IF last[c] >= j - 1 THEN last[c] - (j - 1) ELSE 0

OrderRows(n, last, rb, k) ==
    {[customer_unique_id |-> c,
      order_id |-> c * (MaxOrders + 1) + j,
      order_item_id |-> it,
      order_purchase_timestamp |->
          OrderDay(last, c, j) * TicksPerDay + ((c + j) % TicksPerDay),
      price |-> (c + j + it) % (MaxPrice + 1)] :
        <<c, j, it>> \in {q \in (1..n) \X (1..MaxOrders) \X (1..2) :
                            /\ q[2] <= NumOrders(q[1], rb, k)
                            /\ q[3] <= 1 + ((q[1] + q[2]) % 2)}}

(* all_df.sort_values(by="order_purchase_timestamp"): the rows reach      *)
(* create_rfm_df in ascending order of the timestamp; rows of one         *)
(* timestamp in an order the caller does not control, here the customer   *)
(* with the larger id first                                               *)
Before(a, b) ==
    \/ a.order_purchase_timestamp < b.order_purchase_timestamp
    \/ /\ a.order_purchase_timestamp = b.order_purchase_timestamp
       /\ \/ a.customer_unique_id > b.customer_unique_id
          \/ /\ a.customer_unique_id = b.customer_unique_id
             /\ \/ a.order_id < b.order_id
                \/ /\ a.order_id = b.order_id
                   /\ a.order_item_id < b.order_item_id

SortedRows(R) ==
    List([i \in 1..Cardinality(R) |->
        CHOOSE r \in R : Cardinality({q \in R : Before(q, r)}) = i - 1])

Inputs ==
    {SortedRows(OrderRows(n, last, rb, k)) :
        <<n, last, rb, k>> \in
            {q \in (1..MaxCust) \X [1..MaxCust -> 0..MaxDay]
                                 \X (0..MaxCust) \X (2..MaxOrders) :
                /\ q[3] <= q[1]
                /\ q[3] = 0 => q[4] = 2
                /\ \A c \in (q[1] + 1)..MaxCust : q[2][c] = 0}}

(* Five customers: 1 to 4 with one order each at the same old timestamp,  *)
(* prices 10, 20, 30, 40; customer 5 with five orders of 200 each, the    *)
(* last one the most recent purchase of the table.                        *)
Scenario5 ==
    [i \in 1..9 |->
        IF i <= 4
        THEN [customer_unique_id |-> i, order_id |-> i, order_item_id |-> 1,
              order_purchase_timestamp |-> 0, price |-> 10 * i]
        ELSE [customer_unique_id |-> 5, order_id |-> i, order_item_id |-> 1,
              order_purchase_timestamp |-> (i - 4) * TicksPerDay, price |-> 200]]

(* ---------------------------- the machine ----------------------------- *)

NoTable == <<>>

Init ==
    /\ df \in Inputs \cup {Scenario5}
    /\ pc = "call"
    /\ rfm_df = NoTable
    /\ revenue_per_type = NoTable

(* rfm_df, revenue_per_type = create_rfm_df(main_df): returns the two     *)
(* tables, or ends in the ValueError of a qcut                            *)
create_rfm_df ==
    /\ pc = "call"
    /\ LET t == Aggregate(df)
           r == r_score(t)
           f == f_score(t)
       IN IF r.ok /\ f.ok
          THEN /\ rfm_df' = Scored(t, r.val, f.val)
               /\ revenue_per_type' = RevenuePerType(rfm_df')
               /\ pc' = "returned"
          ELSE /\ pc' = "raised"
               /\ UNCHANGED <<rfm_df, revenue_per_type>>
    /\ UNCHANGED df

Next == create_rfm_df

Spec == Init /\ [][Next]_vars

(* ------------------------ vocabulary of the claims --------------------- *)

Customers == {df[i].customer_unique_id : i \in 1..Len(df)}

Returned == pc = "returned"

Rows == 1..Len(rfm_df)

Scores == 1..NBins

(* the segment the specification's table gives for the pair (r, f) *)
TableLabel(r, f) ==
    IF r \in {4, 5} /\ f \in {4, 5} THEN "Champions"
    ELSE IF r = 3 /\ f \in {4, 5} THEN "Loyal customers"
    ELSE IF r \in {3, 4, 5} /\ f \in {1, 2, 3} THEN "Potential loyalist"
    ELSE IF r \in {1, 2} /\ f \in {4, 5} THEN "At risk"
    ELSE IF r = 2 /\ f \in {2, 3} THEN "Hibernating"
    ELSE "Lost"

Matching(code) == {k \in 1..Len(seg_map) : Search(seg_map[k].pat, code)}

BucketSize(col, v) == Cardinality({i \in 1..Len(col) : col[i] = v})

Balanced(col) ==
    /\ \A v \in Scores : BucketSize(col, v) >= 1
    /\ \A v, w \in Scores : BucketSize(col, v) - BucketSize(col, w) <= 1

RECURSIVE SumSeq(_)
SumSeq(s) == IF s = <<>> THEN 0 ELSE Head(s) + SumSeq(Tail(s))

Reverse(s) == List([i \in 1..Len(s) |-> s[Len(s) + 1 - i]])

(* the f_score each customer of the table d gets, or "raised" *)
FScoreByCustomer(d) ==
    LET t == Aggregate(d)
        f == f_score(t)
    IN IF f.ok THEN {<<t[i].customer_unique_id, f.val[i]>> : i \in 1..Len(t)}
       ELSE {"raised"}

(* ------------------------------ claims -------------------------------- *)

(* C1: each of the 25 codes rf_score = r_score f_score is matched by      *)
(* exactly one pattern of seg_map, and every customer row of a returned   *)
(* table carries the code of its two scores and the segment the           *)
(* specification's table gives for it; no code stays unmapped.            *)
C1_SegmentTable ==
    /\ \A r, f \in Scores :
          /\ Cardinality(Matching(Str(r) \o Str(f))) = 1
          /\ Replace(Str(r) \o Str(f)) = <<TableLabel(r, f)>>
    /\ Returned =>
          \A i \in Rows :
             /\ rfm_df[i].rf_score = Str(rfm_df[i].r_score) \o Str(rfm_df[i].f_score)
             /\ Cardinality(Matching(rfm_df[i].rf_score)) = 1
             /\ rfm_df[i].customers_type
                  = <<TableLabel(rfm_df[i].r_score, rfm_df[i].f_score)>>

(* a returned table holding the code 21, mapped to Lost by the "|21"      *)
(* alternative, beside a Champions row                                    *)
C1_Witness ==
    /\ Returned
    /\ \E i \in Rows : /\ rfm_df[i].rf_score = <<"2", "1">>
                        /\ rfm_df[i].customers_type = <<"Lost">>
    /\ \E i \in Rows : rfm_df[i].customers_type = <<"Champions">>

(* C2: whenever create_rfm_df returns, the monetary values of the         *)
(* per-segment revenue table add up to the sum of price over all input    *)
(* rows.                                                                  *)
C2_Conservation ==
    Returned =>
        SumSet(DOMAIN revenue_per_type, revenue_per_type)
            = SumSeq(Column(df, "price"))

(* a returned call with several segments, a customer with several rows    *)
(* and a positive total                                                   *)
C2_Witness ==
    /\ Returned
    /\ Cardinality(Customers) >= 5
    /\ Cardinality(DOMAIN revenue_per_type) >= 3
    /\ Len(df) > Cardinality(Customers)
    /\ SumSeq(Column(df, "price")) > 0

(* C3: for an input with at least 5 distinct customers and non-negative   *)
(* prices, every customer row of the returned table has recency >= 1,     *)
(* frequency >= 1 and monetary >= 0, and the customer of the latest       *)
(* purchase has recency exactly 1.                                        *)
C3_MetricRanges ==
    (/\ Returned
     /\ Cardinality(Customers) >= 5
     /\ \A i \in 1..Len(df) : df[i].price >= 0) =>
        /\ \A i \in Rows : /\ rfm_df[i].recency >= 1
                            /\ rfm_df[i].frequency >= 1
                            /\ rfm_df[i].monetary >= 0
        /\ \A i \in Rows :
              (\E j \in 1..Len(df) :
                  /\ df[j].customer_unique_id = rfm_df[i].customer_unique_id
                  /\ \A m \in 1..Len(df) :
                        df[m].order_purchase_timestamp
                            <= df[j].order_purchase_timestamp)
              => rfm_df[i].recency = 1

(* a returned table of 5 customers with a customer of recency 1, a       *)
(* customer whose distance to the reference date is no whole number of    *)
(* days, a customer of frequency 2 and a customer of monetary 0           *)
C3_Witness ==
    /\ Returned
    /\ Cardinality(Customers) >= 5
    /\ \E i \in Rows : rfm_df[i].recency = 1
    /\ \E j \in 1..Len(df) :
          (max_date(df) - df[j].order_purchase_timestamp) % TicksPerDay # 0
    /\ \E i \in Rows : rfm_df[i].frequency >= 2
    /\ \E i \in Rows : rfm_df[i].monetary = 0

(* C4: for every input with at least 5 distinct customers the call        *)
(* returns, every customer has r_score and f_score in 1..5 and each of    *)
(* the two scores uses all five buckets.                                  *)
C4_AlwaysScored ==
    (pc # "call" /\ Cardinality(Customers) >= 5) =>
        /\ Returned
        /\ \A i \in Rows : rfm_df[i].r_score \in Scores /\ rfm_df[i].f_score \in Scores
        /\ \A v \in Scores : BucketSize(Column(rfm_df, "r_score"), v) >= 1
        /\ \A v \in Scores : BucketSize(Column(rfm_df, "f_score"), v) >= 1

(* C5: on the scenario of five customers the call returns with customer 5 *)
(* scored 5 and 5, coded 55, typed Champions, and Champions revenue 1000; *)
(* and in any returned table a customer with the strictly lowest recency  *)
(* and the strictly highest frequency is coded 55 and typed Champions.    *)
C5_Scenario ==
    /\ (pc # "call" /\ df = Scenario5) =>
          /\ Returned
          /\ \E i \in Rows :
                /\ rfm_df[i].customer_unique_id = 5
                /\ rfm_df[i].r_score = 5
                /\ rfm_df[i].f_score = 5
                /\ rfm_df[i].rf_score = <<"5", "5">>
                /\ rfm_df[i].customers_type = <<"Champions">>
          /\ "Champions" \in {ty[1] : ty \in DOMAIN revenue_per_type}
          /\ revenue_per_type[<<"Champions">>] = 1000
    /\ Returned =>
          \A i \in Rows :
             (\A j \in Rows \ {i} : /\ rfm_df[i].recency < rfm_df[j].recency
                                     /\ rfm_df[i].frequency > rfm_df[j].frequency)
             => /\ rfm_df[i].rf_score = <<"5", "5">>
                /\ rfm_df[i].customers_type = <<"Champions">>

(* C6: with fewer than 5 distinct customers the call ends in a reported   *)
(* error and returns no tables.                                           *)
C6_FewCustomersRaise ==
    (pc # "call" /\ Cardinality(Customers) < 5) =>
        /\ pc = "raised"
        /\ rfm_df = NoTable
        /\ revenue_per_type = NoTable

(* C8: in a returned table r_score never increases with recency, equal    *)
(* recency gives equal r_score, the lowest recency has r_score 5 and the  *)
(* highest recency has r_score 1.                                         *)
C8_RecencyReversed ==
    Returned =>
        /\ \A a, b \in Rows :
              /\ rfm_df[a].recency < rfm_df[b].recency
                    => rfm_df[a].r_score >= rfm_df[b].r_score
              /\ rfm_df[a].recency = rfm_df[b].recency
                    => rfm_df[a].r_score = rfm_df[b].r_score
        /\ \A a \in Rows :
              /\ (\A b \in Rows : rfm_df[a].recency <= rfm_df[b].recency)
                    => rfm_df[a].r_score = 5
              /\ (\A b \in Rows : rfm_df[a].recency >= rfm_df[b].recency)
                    => rfm_df[a].r_score = 1

(* a returned table of at least 5 customers, two of them sharing a        *)
(* recency and one in between the extremes                                *)
C8_Witness ==
    /\ Returned
    /\ Cardinality(Customers) >= 5
    /\ \E a, b \in Rows : a # b /\ rfm_df[a].recency = rfm_df[b].recency
    /\ \E a \in Rows : rfm_df[a].r_score \in 2..4

C10_FrequencyMonotone ==
    /\ Returned =>
          \A a, b \in Rows :
             /\ a < b => rfm_df[a].customer_unique_id < rfm_df[b].customer_unique_id
             /\ rfm_df[a].frequency < rfm_df[b].frequency
                   => rfm_df[a].f_score <= rfm_df[b].f_score
             /\ (rfm_df[a].frequency = rfm_df[b].frequency /\ a < b)
                   => rfm_df[a].f_score <= rfm_df[b].f_score
    /\ pc # "call" => FScoreByCustomer(Reverse(df)) = FScoreByCustomer(df)

(* a returned table of 5 customers in which the customer of the first     *)
(* input row is not the first of the table, with both a tie and a strict  *)
(* difference in frequency                                                *)
C10_Witness ==
    /\ Returned
    /\ Cardinality(Customers) >= 5
    /\ df[1].customer_unique_id # rfm_df[1].customer_unique_id
    /\ \E a, b \in Rows : a # b /\ rfm_df[a].frequency = rfm_df[b].frequency
    /\ \E a, b \in Rows : rfm_df[a].frequency < rfm_df[b].frequency

====
